---- MODULE Spec2Model ----
(***************************************************************************)
(* Model of src/src/esxport.py: the retry decorator, index and field       *)
(* validation, the scroll loop that stages hits in a line-delimited JSON   *)
(* file, the CSV materialization pass and the scroll cleanup.              *)
(*                                                                         *)
(* Python values are tagged pairs <<type, text>>; a Python dict is a       *)
(* sequence of <<key, value>> pairs with distinct keys, in insertion       *)
(* order.  A hit is [_source |-> dict, top |-> dict of the other top-level *)
(* keys of the hit].  A file is [exists |-> BOOLEAN, lines |-> sequence].  *)
(***************************************************************************)
EXTENDS Integers, Sequences, FiniteSets, TLC

\* ------------------------------------------------------------- bounds
\* The flush threshold is 1000 in the source (line 19); the model runs the
\* same code with a small threshold so that pages below, at and above it occur.
FLUSH_BUFFER == 2
\* Documents the cluster can serve in one run, and hits in one page.
MaxDocs == 4
MaxPageLen == 3
\* Largest total the cluster reports and largest configured result cap.
MaxTotal == 3
MaxResults == 3
\* Bounds of the generic retry specification and of the field-validation one.
MaxTries == 4
MaxFields == 2
MaxSort == 1

\* ---------------------------------------------------------- constants
TIMES_TO_TRY == 3
RETRY_DELAY == 60
META_FIELDS == <<"_id", "_index", "_score">>

\* ------------------------------------------------------ Python values
None == <<"none", "">>
PyInt(t) == <<"int", t>>
PyStr(t) == <<"str", t>>

\* json.dumps of a scalar: null, the digits, or the text in double quotes.
json_dumps(v) ==
    CASE v[1] = "none" -> "null"
      [] v[1] = "int" -> v[2]
      [] OTHER -> "\"" \o v[2] \o "\""

Texts == {"1", "2", "x", "m", "i1"}
PyVals == {None} \cup {PyInt(t) : t \in Texts} \cup {PyStr(t) : t \in Texts}

\* json.loads of a scalar text written by json_dumps.
json_loads(t) == CHOOSE v \in PyVals : json_dumps(v) = t

\* What csv.writer writes for a value: None as the empty field, else str(v).
csv_field(v) == IF v[1] = "none" THEN "" ELSE v[2]

\* ------------------------------------------------------- Python dicts
\* What a lookup of a key the dict lacks is compared with.
Absent == <<"absent">>
Has(d, k) == \E j \in 1..Len(d) : d[j][1] = k
Get(d, k, default) ==
    IF Has(d, k) THEN d[CHOOSE j \in 1..Len(d) : d[j][1] = k][2] ELSE default
Pop(d, k) == SelectSeq(d, LAMBDA p : p[1] # k)
SetItem(d, k, v) ==
    IF Has(d, k)
    THEN [j \in 1..Len(d) |-> IF d[j][1] = k THEN <<k, v>> ELSE d[j]]
    ELSE Append(d, <<k, v>>)
Keys(d) == [j \in 1..Len(d) |-> d[j][1]]
InSeq(x, s) == \E j \in 1..Len(s) : s[j] = x

\* json.dumps / json.loads of one record: key order kept, values converted.
json_dumps_obj(d) == [j \in 1..Len(d) |-> <<d[j][1], json_dumps(d[j][2])>>]
json_loads_obj(l) == [j \in 1..Len(l) |-> <<l[j][1], json_loads(l[j][2])>>]

\* -------------------------------------------------------------- retry
\* The frame of one call of a wrapped function: mtries is the local of
\* f_retry; attempts, fails, sleeps and slept record what the call has done,
\* raised the last exception an attempt of f raised ("" when none has).
Idle == [active |-> FALSE, mtries |-> 0, attempts |-> 0, fails |-> 0,
         sleeps |-> 0, slept |-> 0, raised |-> ""]

\* A frame that starts with one try fewer.
f_retry_enter_one_less(tries) ==
    [active |-> TRUE, mtries |-> tries - 1, attempts |-> 0, fails |-> 0,
     sleeps |-> 0, slept |-> 0, raised |-> ""]

\* Line 39: mtries = tries.
f_retry_enter(tries) ==
    [active |-> TRUE, mtries |-> tries, attempts |-> 0, fails |-> 0,
     sleeps |-> 0, slept |-> 0, raised |-> ""]

\* Lines 42 and 49: f is invoked once more.
f_retry_call(fr) == [fr EXCEPT !.attempts = @ + 1]

\* f raised exc during the attempt.
f_raised(fr, exc) == [fr EXCEPT !.raised = exc]

\* An except clause that catches whatever is raised.
is_exception_to_check_any(exc) == TRUE

\* Lines 43, 50: except exception_to_check, which every wrapped method sets
\* to ConnectionError (lines 117, 124, 184, 218).
is_exception_to_check(exc) == exc = "ConnectionError"

\* A final attempt that lets the exception it caught go on.
exhausted_reraises(exc) == exc

\* Lines 50-52: on the final attempt the caught exception is replaced by the
\* SystemExit of sys.exit(1).
exhausted_raises(exc) == "SystemExit"

\* A loop that keeps the last try for the final attempt (while mtries > 1).
in_retry_loop_off_by_one(fr) == fr.mtries > 1

\* Lines 40, 48: the attempt being made is inside the loop while mtries > 0,
\* otherwise it is the final attempt.
in_retry_loop(fr) == fr.mtries > 0

\* Lines 43-47 and 50-52: the designated exception was raised by an attempt.
\* Inside the loop: sleep(delay), mtries -= 1, go round again.  On the final
\* attempt: sys.exit(1).
f_retry_except(fr, delay) ==
    IF in_retry_loop(fr)
    THEN [verdict |-> "retry",
          frame |-> [fr EXCEPT !.mtries = @ - 1, !.fails = @ + 1,
                               !.sleeps = @ + 1, !.slept = @ + delay]]
    ELSE [verdict |-> "exit", frame |-> [fr EXCEPT !.fails = @ + 1]]

\* ------------------------------------------------ names and the cluster
\* A field name is a sequence of tokens, "." being the separator token.
Dot == "."
ALL == <<"_all">>
FA == <<"a">>
FB == <<"b">>
FC == <<"c">>
FAB == <<"a", Dot, "b">>
FCD == <<"c", Dot, "d">>

\* str.split("."): the parts between the separator tokens; never empty.
RECURSIVE split(_)
split(name) ==
    IF \A j \in 1..Len(name) : name[j] # Dot
    THEN <<name>>
    ELSE LET k == CHOOSE j \in 1..Len(name) :
                      name[j] = Dot /\ \A m \in 1..(j - 1) : name[m] # Dot
         IN <<SubSeq(name, 1, k - 1)>> \o split(SubSeq(name, k + 1, Len(name)))

\* The hits the cluster can return.
HitA == [_source |-> << <<"a", PyInt("1")>>, <<"_meta", PyStr("m")>>, <<"b", PyStr("x")>> >>,
         top |-> << <<"_id", PyStr("1")>>, <<"_index", PyStr("i1")>>, <<"_score", PyInt("1")>> >>]
HitB == [_source |-> << <<"b", None>>, <<"a", PyInt("2")>> >>,
         top |-> << <<"_id", PyStr("2")>>, <<"_index", PyStr("i1")>> >>]
HitC == [_source |-> << <<"a", PyStr("1")>>, <<"c", PyInt("2")>> >>,
         top |-> << <<"_id", PyStr("x")>>, <<"_index", PyStr("i1")>>, <<"_score", None>> >>]
HitPool == {HitA, HitB, HitC}

SeqsUpTo(S, n) == UNION {[1..k -> S] : k \in 0..n}
Min(a, b) == IF a < b THEN a ELSE b

ScrollIds == {"s1", "s2"}
\* A page the cluster may answer with when it holds documents of the kinds
\* in pool and has n documents left to serve.
Pages(pool, n) == [_scroll_id : ScrollIds, hits : SeqsUpTo(pool, Min(MaxPageLen, n))]
\* The first page carries the first cursor id.
FirstPages(pool, n) == {p \in Pages(pool, n) : p._scroll_id = "s1"}

\* --------------------------------------------------- _validate_fields
\* The sort key taken whole.
sort_param_whole(sort_query) == Keys(sort_query)[1]

\* Lines 144-146: the first key of a sort entry, cut at its first dot.
sort_param(sort_query) ==
    LET sort_key == Keys(sort_query)[1]
        parts == split(sort_key)
    IN IF Len(parts) > 0 THEN parts[1] ELSE sort_key

\* list.remove(x): the list without its first x.
remove(s, x) ==
    LET k == CHOOSE j \in 1..Len(s) : s[j] = x /\ \A m \in 1..(j - 1) : s[m] # x
    IN SubSeq(s, 1, k - 1) \o SubSeq(s, k + 1, Len(s))

\* Lines 142-149: the fields, then one sort_param per sort entry, less "_all".
all_expected_fields(fields, sort) ==
    LET with_sort == fields \o [j \in 1..Len(sort) |-> sort_param(sort[j])]
    IN IF InSeq(ALL, with_sort) THEN remove(with_sort, ALL) ELSE with_sort

\* Lines 151-156: the property names of every index of indices_names.
all_es_fields(indices_names, mappings) ==
    UNION {{mappings[indices_names[n]][j] : j \in 1..Len(mappings[indices_names[n]])} :
           n \in 1..Len(indices_names)}

\* Lines 82, 131: indices.exists of a list of names is true when the cluster
\* has every one of them.
indices_exists(index, mappings) ==
    \A n \in 1..Len(index) : index[n] \in DOMAIN mappings

\* Lines 158-161: some expected element is in no index: sys.exit(1).
validate_fields_exits(o, mappings) ==
    \E j \in 1..Len(all_expected_fields(o.fields, o.sort)) :
        all_expected_fields(o.fields, o.sort)[j]
            \notin all_es_fields(o.index_prefixes, mappings)

\* ------------------------------------------------ prepare_search_query
\* Lines 165-176: the dict as the set of its keys and their values (the
\* scroll time, page size and query body are passed through unchanged and are
\* left out).  NoArgs is the empty dict of line 105.
NoArgs == [keys |-> {}, index |-> <<>>, terminate_after |-> 0, sort |-> <<>>,
           _source_includes |-> <<>>]
prepare_search_query(o) ==
    [keys |-> {"index", "terminate_after"}
                \cup (IF o.sort # <<>> THEN {"sort"} ELSE {})
                \cup (IF ~InSeq(ALL, o.fields) THEN {"_source_includes"} ELSE {}),
     index |-> o.index_prefixes,
     terminate_after |-> o.max_results,
     sort |-> IF o.sort # <<>> THEN o.sort ELSE <<>>,
     _source_includes |-> IF ~InSeq(ALL, o.fields) THEN o.fields ELSE <<>>]

\* ------------------------------------------------------- flush_to_file
\* Lines 234-237: data[field] = hit.get(field, None) for each meta field.
RECURSIVE add_meta_fields(_, _, _)
add_meta_fields(data, hit, meta_fields) ==
    IF meta_fields = <<>>
    THEN data
    ELSE add_meta_fields(SetItem(data, Head(meta_fields),
                                 Get(hit.top, Head(meta_fields), None)),
                         hit, Tail(meta_fields))

\* The line written when the reserved key is not removed.
staged_line_keeps_meta(hit, meta_fields) ==
    json_dumps_obj(add_meta_fields(hit._source, hit, meta_fields))

\* Lines 241-244: the line written for one hit.
staged_line(hit, meta_fields) ==
    json_dumps_obj(add_meta_fields(Pop(hit._source, "_meta"), hit, meta_fields))

\* Lines 239-245: open in append mode (creating the file), one line per hit.
flush_to_file(file, hits, meta_fields) ==
    [exists |-> TRUE,
     lines |-> file.lines \o [j \in 1..Len(hits) |-> staged_line(hits[j], meta_fields)]]

\* ---------------------------------------------------------- write_to_csv
NoFile == [exists |-> FALSE, lines |-> <<>>]

\* Line 192: the expected result count.
total_size(o, n) == Min(o.max_results, n)

\* A loop that runs only while rows are still missing.
loop_continues_while_below(rows, total) == rows < total

\* Line 200: the test of the streaming loop.
loop_continues(rows, total) == rows # total

\* A threshold test that lets the batch grow by one more hit.
batch_full_over(hit_list) == Len(hit_list) > FLUSH_BUFFER

\* Line 211: the batch has reached the flush threshold.
batch_full(hit_list) == Len(hit_list) = FLUSH_BUFFER

\* A for loop that leaves out the last hit of a page.
for_exhausted_one_short(i, hits) == i >= Len(hits) - 1

\* Line 207: the for loop ends after the i-th hit when the page has no more.
for_exhausted(i, hits) == i >= Len(hits)

\* csv.DictWriter.writerow with the default extrasaction="raise": a key that
\* is no fieldname raises ValueError.
writerow_raises(fieldnames, rowdict) ==
    \E j \in 1..Len(rowdict) : ~InSeq(rowdict[j][1], fieldnames)

\* csv.DictWriter.writerow: the values in fieldnames order, "" for a missing
\* key (restval), each written as csv.writer writes it.
writerow(fieldnames, rowdict) ==
    [j \in 1..Len(fieldnames) |->
        IF Has(rowdict, fieldnames[j])
        THEN csv_field(Get(rowdict, fieldnames[j], None))
        ELSE ""]

\* An unlink that leaves the file in place.
unlink_keeps(file) == file

\* Line 272: Path.unlink() of an existing file.
unlink(file) == NoFile

\* ------------------------------------------------------ clean_scroll_ids
\* The classes derived from Exception among the exceptions of the model;
\* SystemExit derives from BaseException only.
ExceptionSubclasses == {"ConnectionError", "NotFoundError", "ValueError", "FileNotFoundError"}
\* What the clear_scroll request raises when it fails: the transport and API
\* errors of the client library.
ClearScrollErrors == {"ConnectionError", "NotFoundError"}

\* A context manager that suppresses nothing.
suppress_nothing(exc) == FALSE

\* Line 276: contextlib.suppress(Exception) swallows an exception whose class
\* derives from Exception.
suppress(exc) == exc \in ExceptionSubclasses

\* ---------------------------------------------------------------- state
VARIABLES
    opts,          \* self.opts: index_prefixes, fields, sort, meta_fields, max_results
    schemas,       \* the cluster: index name -> top-level property names
    docs_left,     \* the cluster: documents it can still serve
    docs_pool,     \* the cluster: the kinds of documents it holds
    search_args,   \* self.search_args
    num_results,   \* self.num_results
    rows_written,  \* self.rows_written
    scroll_ids,    \* self.scroll_ids
    res,           \* write_to_temp_file: the current page
    hit_list,      \* write_to_temp_file: the in-memory batch
    i,             \* write_to_temp_file: position of the for loop in the page
    tmp_file,      \* the staging file, self.tmp_file
    output_file,   \* the output file, opts.output_file
    csv_headers,   \* self.csv_headers
    line_no,       \* write_to_csv: the staged line being read
    frames,        \* the f_retry frame of each wrapped method
    pc,            \* where the run is
    outcome,       \* "running", or the exception that ended the run and its origin
    consumed,      \* history: the hits the for loop has taken, in order
    out0,          \* history: the output file as the run found it
    clear_scroll,  \* history: what the clear_scroll call did ("" before it)
    r_tries, r_delay, r_frame, r_pc, r_result
                   \* one retry-wrapped operation on its own (SpecRetry)

runVars == <<opts, schemas, docs_left, docs_pool, search_args, num_results, rows_written,
             scroll_ids, res, hit_list, i, tmp_file, output_file, csv_headers,
             line_no, frames, pc, outcome, consumed, out0, clear_scroll>>
retryVars == <<r_tries, r_delay, r_frame, r_pc, r_result>>
vars == <<runVars, retryVars>>

Wrapped == {"create_connection", "check_indexes", "search_query", "next_scroll"}
NoRes == [_scroll_id |-> "", hits |-> <<>>]
OldFile == [exists |-> TRUE, lines |-> << <<"old">> >>]
SortBy(key) == << <<key, PyStr("asc")>> >>

\* The configurations of the pipeline specification: two exports of index
\* i1 whose fields pass validation, one without metadata fields and capped at
\* the largest total the cluster reports, one with metadata fields and a cap
\* below it; one export of all indices that asks for a field no index has;
\* and one export that names an index the cluster does not have.
PipelineOpts ==
    {[index_prefixes |-> <<"i1">>, fields |-> <<FA, ALL>>, sort |-> <<SortBy(FAB)>>,
      meta_fields |-> <<>>, max_results |-> MaxResults],
     [index_prefixes |-> <<"i1">>, fields |-> <<FA, ALL>>, sort |-> <<SortBy(FAB)>>,
      meta_fields |-> <<META_FIELDS[1], META_FIELDS[3]>>, max_results |-> MaxResults - 1]}
    \cup {[index_prefixes |-> <<"i1", "_all">>, fields |-> <<FA, FC>>, sort |-> <<>>,
           meta_fields |-> <<>>, max_results |-> MaxResults],
          [index_prefixes |-> <<"i1", "i3">>, fields |-> <<FA>>, sort |-> <<>>,
           meta_fields |-> <<>>, max_results |-> MaxResults]}
\* The output file a run may find: absent, or left by an earlier export; the
\* export with metadata fields is run without one.
PipelineFiles(o) == IF o.meta_fields = <<>> THEN {NoFile, OldFile} ELSE {NoFile}
PipelineSchemas ==
    [n \in {"i1", "i2", "_all"} |-> IF n = "i2" THEN <<FC>> ELSE <<FB, FA>>]

InitRetryIdle ==
    /\ r_tries = 0 /\ r_delay = 0 /\ r_frame = Idle /\ r_pc = "idle" /\ r_result = ""

InitRun(o, m, at, files, pool) ==
    /\ opts = o
    /\ schemas = m
    /\ docs_left = MaxDocs
    /\ docs_pool = pool
    /\ search_args = NoArgs
    /\ num_results = 0
    /\ rows_written = 0
    /\ scroll_ids = <<>>
    /\ res = NoRes
    /\ hit_list = <<>>
    /\ i = 0
    /\ tmp_file = NoFile
    /\ output_file \in files
    /\ csv_headers = <<>>
    /\ line_no = 0
    /\ frames = [w \in Wrapped |-> IF w = at THEN f_retry_enter(TIMES_TO_TRY) ELSE Idle]
    /\ pc = at
    /\ outcome = "running"
    /\ consumed = <<>>
    /\ out0 = output_file
    /\ clear_scroll = ""

Init ==
    /\ \E o \in PipelineOpts :
          InitRun(o, PipelineSchemas, "create_connection", PipelineFiles(o), HitPool)
    /\ InitRetryIdle

\* ------------------------------------------------------- control flow
\* The order in which the caller runs the stages of an export.
run_order(stage) ==
    CASE stage = "create_connection" -> "check_indexes"
      [] stage = "check_indexes" -> "search_query"
      [] stage = "search_query" -> "write_to_csv"
      [] stage = "write_to_csv" -> "clean_scroll_ids"
      [] OTHER -> "done"

\* A wrapped method returns: its frame is gone; the next wrapped stage is
\* entered through its own f_retry.
Return(w) ==
    /\ frames' = [x \in Wrapped |->
                    IF x = run_order(w) THEN f_retry_enter(TIMES_TO_TRY)
                    ELSE IF x = w THEN Idle ELSE frames[x]]
    /\ pc' = run_order(w)
    /\ outcome' = outcome

\* An exception leaves every frame on the stack; the scroll cleanup still runs.
Fatal(what) ==
    /\ pc' = "clean_scroll_ids"
    /\ outcome' = what

\* The wrapped method inside whose attempt w runs: next_scroll is called by
\* write_to_temp_file (line 214), which search_query calls (line 229).
enclosing(w) == IF w = "next_scroll" THEN "search_query" ELSE "none"

\* Lines 42-52: exception exc, raised at `what`, reaches the f_retry of w,
\* the frames being fs.  A designated exception is handled there: sleep and
\* go round again (w restarts at `again`), or sys.exit(1) on the final
\* attempt.  Any other exception, and the SystemExit of line 52, leaves that
\* f_retry and reaches the f_retry of the enclosing wrapped method, if any.
RECURSIVE f_retry_raised(_, _, _, _, _)
f_retry_raised(fs, w, exc, what, again) ==
    IF w \notin Wrapped
    THEN [frames |-> fs, retry |-> "none", what |-> what]
    ELSE LET fr == f_raised(fs[w], exc)
         IN IF is_exception_to_check(exc)
            THEN LET v == f_retry_except(fr, RETRY_DELAY)
                     gs == [fs EXCEPT ![w] = v.frame]
                 IN IF v.verdict = "retry"
                    THEN [frames |-> gs, retry |-> again, what |-> ""]
                    ELSE f_retry_raised(gs, enclosing(w), exhausted_raises(exc),
                                        exhausted_raises(exc) \o "@f_retry",
                                        enclosing(w))
            ELSE f_retry_raised([fs EXCEPT ![w] = fr], enclosing(w), exc, what,
                                enclosing(w))

\* The attempt of wrapped method w whose frame (with this attempt counted) is
\* fr raised exc: the run goes on where a retry starts, or ends.
Raise(w, fr, exc, what, again) ==
    LET r == f_retry_raised([frames EXCEPT ![w] = fr], w, exc, what, again)
    IN /\ frames' = r.frames
       /\ IF r.retry # "none"
          THEN pc' = r.retry /\ outcome' = outcome
          ELSE Fatal(r.what)

\* The attempt of wrapped method w whose frame (with this attempt counted) is
\* fr raised ConnectionError: f_retry either goes round again or exits.
Caught(w, fr, again) == Raise(w, fr, "ConnectionError", "ConnectionError", again)

\* -------------------------------------------------------------- actions
\* create_connection (lines 117-122): cluster_health() answers or raises
\* ConnectionError.
CreateConnection ==
    /\ pc = "create_connection"
    /\ \/ Return("create_connection")
       \/ Caught("create_connection", f_retry_call(frames["create_connection"]),
                 "create_connection")
    /\ UNCHANGED <<opts, schemas, docs_pool, docs_left, search_args, num_results, rows_written,
                   scroll_ids, res, hit_list, i, tmp_file, output_file, csv_headers,
                   line_no, consumed, out0, clear_scroll, retryVars>>

\* check_indexes (lines 124-137).
CheckIndexes ==
    /\ pc = "check_indexes"
    /\ IF InSeq("_all", opts.index_prefixes)
       THEN /\ opts' = [opts EXCEPT !.index_prefixes = <<"_all">>]
            /\ Return("check_indexes")
       ELSE \/ /\ indices_exists(opts.index_prefixes, schemas)
               /\ opts' = [opts EXCEPT !.index_prefixes = opts.index_prefixes]
               /\ Return("check_indexes")
            \/ /\ ~indices_exists(opts.index_prefixes, schemas)
               /\ Raise("check_indexes", f_retry_call(frames["check_indexes"]),
                        "SystemExit", "SystemExit@check_indexes", "check_indexes")
               /\ UNCHANGED opts
            \/ /\ Caught("check_indexes", f_retry_call(frames["check_indexes"]),
                         "check_indexes")
               /\ UNCHANGED opts
    /\ UNCHANGED <<schemas, docs_pool, docs_left, search_args, num_results, rows_written,
                   scroll_ids, res, hit_list, i, tmp_file, output_file, csv_headers,
                   line_no, consumed, out0, clear_scroll, retryVars>>

\* search_query, lines 221-222: _validate_fields, whose get_mapping calls may
\* raise ConnectionError, then prepare_search_query.
ValidateFields ==
    /\ pc = "search_query"
    /\ LET fr == f_retry_call(frames["search_query"])
       IN \/ /\ opts.index_prefixes # <<>>
             /\ Caught("search_query", fr, "search_query")
             /\ UNCHANGED search_args
          \/ /\ validate_fields_exits(opts, schemas)
             /\ Raise("search_query", fr, "SystemExit", "SystemExit@_validate_fields",
                      "search_query")
             /\ UNCHANGED search_args
          \/ /\ ~validate_fields_exits(opts, schemas)
             /\ search_args' = prepare_search_query(opts)
             /\ frames' = [frames EXCEPT !["search_query"] = fr]
             /\ pc' = "search"
             /\ UNCHANGED outcome
    /\ UNCHANGED <<opts, schemas, docs_pool, docs_left, num_results, rows_written,
                   scroll_ids, res, hit_list, i, tmp_file, output_file, csv_headers,
                   line_no, consumed, out0, clear_scroll, retryVars>>

\* search_query, lines 223-229: the search call raises ConnectionError, or
\* answers with a total and a first page; write_to_temp_file is entered when
\* the total is positive (lines 191-192).
Search ==
    /\ pc = "search"
    /\ \/ /\ Caught("search_query", frames["search_query"], "search_query")
          /\ UNCHANGED <<num_results, res, docs_left, hit_list>>
       \/ \E total \in 0..MaxTotal, page \in FirstPages(docs_pool, docs_left) :
             /\ total = 0 => page.hits = <<>>
             /\ num_results' = total
             /\ docs_left' = docs_left - Len(page.hits)
             /\ IF total > 0
                THEN /\ res' = page
                     /\ hit_list' = <<>>
                     /\ pc' = "while"
                     /\ UNCHANGED <<frames, outcome>>
                ELSE /\ Return("search_query")
                     /\ UNCHANGED <<res, hit_list>>
    /\ UNCHANGED <<opts, schemas, docs_pool, search_args, rows_written, scroll_ids, i, tmp_file,
                   output_file, csv_headers, line_no, consumed, out0, clear_scroll, retryVars>>

\* write_to_temp_file, lines 200-206: the loop test, the cursor bookkeeping
\* and the empty-page break.
While ==
    /\ pc = "while"
    /\ IF loop_continues(rows_written, total_size(opts, num_results))
       THEN /\ scroll_ids' = IF ~InSeq(res._scroll_id, scroll_ids)
                             THEN Append(scroll_ids, res._scroll_id)
                             ELSE scroll_ids
            /\ IF res.hits = <<>>
               THEN pc' = "flush" /\ i' = i
               ELSE pc' = "for" /\ i' = 1
       ELSE /\ pc' = "flush"
            /\ UNCHANGED <<scroll_ids, i>>
    /\ UNCHANGED <<opts, schemas, docs_pool, docs_left, search_args, num_results, rows_written,
                   res, hit_list, tmp_file, output_file, csv_headers, line_no,
                   frames, outcome, consumed, out0, clear_scroll, retryVars>>

\* write_to_temp_file, lines 207-213: one hit of the page; after the last one
\* next_scroll is called (line 214).
For ==
    /\ pc = "for"
    /\ rows_written' = rows_written + 1
    /\ consumed' = Append(consumed, res.hits[i])
    /\ LET batch == Append(hit_list, res.hits[i])
       IN IF batch_full(batch)
          THEN /\ tmp_file' = flush_to_file(tmp_file, batch, opts.meta_fields)
               /\ hit_list' = <<>>
          ELSE /\ hit_list' = batch
               /\ UNCHANGED tmp_file
    /\ IF ~for_exhausted(i, res.hits)
       THEN /\ i' = i + 1
            /\ UNCHANGED <<pc, frames>>
       ELSE /\ i' = 0
            /\ pc' = "next_scroll"
            /\ frames' = [frames EXCEPT !["next_scroll"] = f_retry_enter(TIMES_TO_TRY)]
    /\ UNCHANGED <<opts, schemas, docs_pool, docs_left, search_args, num_results, scroll_ids,
                   res, output_file, csv_headers, line_no, outcome, out0, clear_scroll, retryVars>>

\* next_scroll (lines 184-187) under its own f_retry.
NextScroll ==
    /\ pc = "next_scroll"
    /\ \/ /\ Caught("next_scroll", f_retry_call(frames["next_scroll"]), "next_scroll")
          /\ UNCHANGED <<res, docs_left>>
       \/ \E page \in Pages(docs_pool, docs_left) :
             /\ res' = page
             /\ docs_left' = docs_left - Len(page.hits)
             /\ frames' = [frames EXCEPT !["next_scroll"] = Idle]
             /\ pc' = "while"
             /\ UNCHANGED outcome
    /\ UNCHANGED <<opts, schemas, docs_pool, search_args, num_results, rows_written, scroll_ids,
                   hit_list, i, tmp_file, output_file, csv_headers, line_no,
                   consumed, out0, clear_scroll, retryVars>>

\* write_to_temp_file, lines 215-216: the last flush; search_query returns.
Flush ==
    /\ pc = "flush"
    /\ tmp_file' = flush_to_file(tmp_file, hit_list, opts.meta_fields)
    /\ hit_list' = <<>>
    /\ Return("search_query")
    /\ UNCHANGED <<opts, schemas, docs_pool, docs_left, search_args, num_results, rows_written,
                   scroll_ids, res, i, output_file, csv_headers, line_no,
                   consumed, out0, clear_scroll, retryVars>>

\* write_to_csv, lines 249-255 and 268-271: the header from the first staged
\* line, the output file opened for writing and the header row written; or
\* the log line of the empty case.
WriteToCsv ==
    /\ pc = "write_to_csv"
    /\ IF rows_written > 0
       THEN IF ~tmp_file.exists
            THEN /\ Fatal("FileNotFoundError@write_to_csv")
                 /\ UNCHANGED <<csv_headers, output_file, line_no>>
            ELSE /\ csv_headers' = Keys(json_loads_obj(tmp_file.lines[1]))
                 /\ output_file' = [exists |-> TRUE, lines |-> <<csv_headers'>>]
                 /\ line_no' = 1
                 /\ pc' = "csv_rows"
                 /\ UNCHANGED outcome
       ELSE /\ pc' = "unlink"
            /\ UNCHANGED <<csv_headers, output_file, line_no, outcome>>
    /\ UNCHANGED <<opts, schemas, docs_pool, docs_left, search_args, num_results, rows_written,
                   scroll_ids, res, hit_list, i, tmp_file, frames, consumed, out0,
                   clear_scroll, retryVars>>

\* write_to_csv, lines 262-265: one staged line parsed and written as a row.
WriteRow ==
    /\ pc = "csv_rows"
    /\ IF line_no > Len(tmp_file.lines)
       THEN /\ pc' = "unlink"
            /\ UNCHANGED <<output_file, line_no, outcome>>
       ELSE LET rowdict == json_loads_obj(tmp_file.lines[line_no])
            IN IF writerow_raises(csv_headers, rowdict)
               THEN /\ Fatal("ValueError@write_to_csv")
                    /\ UNCHANGED <<output_file, line_no>>
               ELSE /\ output_file' = [output_file EXCEPT
                                         !.lines = Append(@, writerow(csv_headers, rowdict))]
                    /\ line_no' = line_no + 1
                    /\ UNCHANGED <<pc, outcome>>
    /\ UNCHANGED <<opts, schemas, docs_pool, docs_left, search_args, num_results, rows_written,
                   scroll_ids, res, hit_list, i, tmp_file, csv_headers, frames,
                   consumed, out0, clear_scroll, retryVars>>

\* write_to_csv, line 272: Path(self.tmp_file).unlink(), which raises
\* FileNotFoundError when there is no such file.
Unlink ==
    /\ pc = "unlink"
    /\ IF tmp_file.exists
       THEN /\ tmp_file' = unlink(tmp_file)
            /\ pc' = run_order("write_to_csv")
            /\ UNCHANGED outcome
       ELSE /\ Fatal("FileNotFoundError@write_to_csv")
            /\ UNCHANGED tmp_file
    /\ UNCHANGED <<opts, schemas, docs_pool, docs_left, search_args, num_results, rows_written,
                   scroll_ids, res, hit_list, i, output_file, csv_headers, line_no,
                   frames, consumed, out0, clear_scroll, retryVars>>

\* clean_scroll_ids (lines 274-277): clear_scroll answers or raises; what it
\* raises passes through contextlib.suppress(Exception).
CleanScrollIds ==
    /\ pc = "clean_scroll_ids"
    /\ \E did \in {"ok"} \cup ClearScrollErrors :
          /\ clear_scroll' = did
          /\ outcome' = IF did = "ok" \/ suppress(did)
                        THEN outcome
                        ELSE did \o "@clean_scroll_ids"
    /\ pc' = run_order("clean_scroll_ids")
    /\ UNCHANGED <<opts, schemas, docs_pool, docs_left, search_args, num_results, rows_written,
                   scroll_ids, res, hit_list, i, tmp_file, output_file, csv_headers,
                   line_no, frames, consumed, out0, retryVars>>

Next ==
    \/ CreateConnection
    \/ CheckIndexes
    \/ ValidateFields
    \/ Search
    \/ While
    \/ For
    \/ NextScroll
    \/ Flush
    \/ WriteToCsv
    \/ WriteRow
    \/ Unlink
    \/ CleanScrollIds

Spec == Init /\ [][Next]_vars

\* The run is one sequential thread: whenever a step is possible it is taken.
\* The streaming loop reads neither the metadata fields, nor the output file,
\* nor the content of a hit, so the fair specification starts from one
\* configuration, with either cap, and a cluster that holds one kind of
\* document.
InitStream ==
    /\ \E cap \in {MaxResults - 1, MaxResults} :
          InitRun([index_prefixes |-> <<"i1">>, fields |-> <<FA, ALL>>,
                   sort |-> <<SortBy(FAB)>>, meta_fields |-> <<>>,
                   max_results |-> cap],
                  PipelineSchemas, "create_connection", {NoFile}, {HitA})
    /\ InitRetryIdle

FairSpec == InitStream /\ [][Next]_vars /\ WF_vars(Next)

\* The exit status of a finished run.
exit_status == IF outcome = "running" THEN 0 ELSE 1

\* ------------------------------------- field validation on its own
\* Every field list, sort list, index list and schema within the bounds,
\* at the entry of search_query.
FieldNames == {FA, FB, FAB, ALL}
SortKeys == {FA, FAB, FCD, ALL}
PropLists == {<<FA>>, <<FB, FA>>, <<FC>>}
FieldsOpts ==
    {[index_prefixes |-> ip, fields |-> f, sort |-> st,
      meta_fields |-> <<>>, max_results |-> MaxResults] :
        ip \in {<<"i1">>, <<"i1", "i2">>},
        f \in SeqsUpTo(FieldNames, MaxFields),
        st \in SeqsUpTo({SortBy(k) : k \in SortKeys}, MaxSort)}
FieldsSchemas ==
    {[n \in {"i1", "i2", "_all"} |-> IF n = "i1" THEN p1 ELSE IF n = "i2" THEN p2 ELSE <<>>] :
        p1 \in PropLists, p2 \in PropLists}

InitFields ==
    /\ \E o \in FieldsOpts, m \in FieldsSchemas : InitRun(o, m, "search_query", {NoFile}, HitPool)
    /\ InitRetryIdle

NextFields == ValidateFields

SpecFields == InitFields /\ [][NextFields]_vars

\* ------------------------------------- one wrapped operation on its own
\* retry(exception_to_check, tries, delay) around an operation that returns
\* a result, raises the designated exception, or raises another one.
Delays == {1, RETRY_DELAY}
Results == {"r1", "r2"}

InitRetry ==
    /\ InitRun(CHOOSE o \in PipelineOpts : TRUE, PipelineSchemas, "done", {NoFile}, HitPool)
    /\ r_tries \in 0..MaxTries
    /\ r_delay \in Delays
    /\ r_frame = f_retry_enter(r_tries)
    /\ r_pc = "call"
    /\ r_result = ""

\* Lines 42, 49: f returns; f_retry returns its result.
RetryOpReturns ==
    /\ r_pc = "call"
    /\ \E v \in Results :
          /\ r_frame' = f_retry_call(r_frame)
          /\ r_result' = v
          /\ r_pc' = "returned"
    /\ UNCHANGED <<runVars, r_tries, r_delay>>

\* Exceptions that are not the designated one.
OtherExceptions == {"SystemExit", "ValueError"}

\* Lines 42-52: the attempt raises exc; the except clause handles it, or it
\* leaves f_retry.
RetryOpRaised(exc) ==
    LET fr == f_raised(f_retry_call(r_frame), exc)
    IN IF is_exception_to_check(exc)
       THEN LET v == f_retry_except(fr, r_delay)
            IN /\ r_frame' = v.frame
               /\ r_pc' = IF v.verdict = "retry" THEN "call" ELSE "exited"
       ELSE /\ r_frame' = fr
            /\ r_pc' = "raised"

\* Lines 43-47, 50-52: f raises the designated exception.
RetryOpTransient ==
    /\ r_pc = "call"
    /\ RetryOpRaised("ConnectionError")
    /\ UNCHANGED <<runVars, r_tries, r_delay, r_result>>

\* f raises an exception f_retry does not catch: it leaves f_retry.
RetryOpRaises ==
    /\ r_pc = "call"
    /\ \E exc \in OtherExceptions : RetryOpRaised(exc)
    /\ UNCHANGED <<runVars, r_tries, r_delay, r_result>>

NextRetry ==
    \/ RetryOpReturns
    \/ RetryOpTransient
    \/ RetryOpRaises

SpecRetry == InitRetry /\ [][NextRetry]_vars

\* ================================================================ claims
StreamingPcs == {"while", "for", "next_scroll", "flush"}
CsvPcs == {"write_to_csv", "csv_rows", "unlink"}
\* write_to_csv has ended, by return (nothing before it ended the run) or by
\* one of its errors.
WriteToCsvReturned == outcome = "running" /\ pc \in {"clean_scroll_ids", "done"}
WriteToCsvRaised ==
    outcome \in {"ValueError@write_to_csv", "FileNotFoundError@write_to_csv"}
\* search_query has returned: write_to_csv is, or has been, called.
SearchQueryReturned == pc \in CsvPcs \/ WriteToCsvReturned \/ WriteToCsvRaised

\* The record a staged line must hold for a hit: the source without _meta,
\* and every configured metadata field with the hit's value or None.
C1_LineOk(line, hit, meta_fields) ==
    LET rec == json_loads_obj(line)
        wanted == {hit._source[j][1] : j \in 1..Len(hit._source)} \ {"_meta"}
        meta == {meta_fields[j] : j \in 1..Len(meta_fields)}
    IN /\ ~Has(rec, "_meta")
       /\ {rec[j][1] : j \in 1..Len(rec)} = wanted \cup meta
       /\ Cardinality({rec[j][1] : j \in 1..Len(rec)}) = Len(rec)
       /\ \A k \in meta :
             Get(rec, k, Absent) = IF Has(hit.top, k) THEN Get(hit.top, k, Absent) ELSE None
       /\ \A k \in wanted \ meta :
             Get(rec, k, Absent) = Get(hit._source, k, Absent)

\* C1: when write_to_temp_file ends having consumed N hits, the staging file
\* holds exactly N lines, in the order the hits were received, each the hit's
\* source without _meta and with every configured metadata field.
C1_StagingFileHoldsConsumedHits ==
    (pc = "write_to_csv" /\ num_results > 0) =>
        /\ tmp_file.exists
        /\ Len(consumed) = rows_written
        /\ Len(tmp_file.lines) = Len(consumed)
        /\ \A j \in 1..Len(consumed) :
              C1_LineOk(tmp_file.lines[j], consumed[j], opts.meta_fields)

\* C1 witness: a run that staged more hits than the flush threshold, with
\* metadata fields configured, a hit carrying _meta and a hit without _score.
C1_Witness ==
    /\ pc = "write_to_csv"
    /\ Len(consumed) > FLUSH_BUFFER
    /\ opts.meta_fields # <<>>
    /\ InSeq(HitA, consumed)
    /\ InSeq(HitB, consumed)
    /\ Len(tmp_file.lines) = Len(consumed)

\* C2: rows_written never exceeds expected_result_count, the reported total
\* clamped to max_results.
C2_RowsWithinExpected ==
    rows_written <= Min(opts.max_results, num_results)

\* C4: in the zero-results case the run ends with exit status zero and the
\* staging file, if any, deleted; write_to_csv raises no error.
C4_ZeroResultsExitZero ==
    (pc = "done" /\ SearchQueryReturned /\ num_results = 0)
        => (exit_status = 0 /\ ~tmp_file.exists)

\* C5: when write_to_csv is called with rows_written zero, the output file is
\* left as it was found and no staging file exists once the run is over.
C5_NoRowsNoOutput ==
    (pc = "done" /\ SearchQueryReturned /\ rows_written = 0)
        => (output_file = out0 /\ ~tmp_file.exists)

\* C5 witness: a run whose first page was empty although the total was
\* positive, over an output file that existed before.
C5_Witness ==
    /\ pc = "done"
    /\ rows_written = 0
    /\ num_results > 0
    /\ SearchQueryReturned
    /\ out0 = OldFile
    /\ scroll_ids # <<>>

\* C6: with rows_written positive, write_to_csv leaves an output file whose
\* header is the key sequence of the first staged line, followed by one row
\* per staged line, in order, its values in header order; the staging file
\* is gone.  Claimed for every staged sequence.
C6_CsvOfEveryStagedSequence ==
    ((WriteToCsvReturned \/ WriteToCsvRaised) /\ rows_written > 0) =>
        LET recs == [j \in 1..Len(consumed) |->
                        json_loads_obj(staged_line(consumed[j], opts.meta_fields))]
            header == Keys(recs[1])
        IN /\ ~tmp_file.exists
           /\ output_file.exists
           /\ Len(output_file.lines) = 1 + Len(consumed)
           /\ output_file.lines[1] = header
           /\ \A j \in 1..Len(consumed) : \A k \in 1..Len(header) :
                 Has(recs[j], header[k]) =>
                     output_file.lines[j + 1][k] = csv_field(Get(recs[j], header[k], None))

\* C7: after write_to_csv ends, by return or by error, the staging file does
\* not exist.
C7_StagingFileAlwaysDeleted ==
    (WriteToCsvReturned \/ WriteToCsvRaised) => ~tmp_file.exists

\* C8: a wrapped operation is invoked until it first succeeds; each of the
\* first N designated failures is followed by one sleep of D and a retry, the
\* final attempt by none; the process exits iff all N+1 attempts fail, so
\* there are at most N+1 invocations.
C8_RetryPolicy ==
    /\ r_frame.attempts <= r_tries + 1
    /\ r_frame.sleeps = Min(r_frame.fails, r_tries)
    /\ r_frame.slept = r_frame.sleeps * r_delay
    /\ (r_pc = "exited") <=> (r_frame.fails = r_tries + 1)
    /\ r_pc = "call" => r_frame.attempts = r_frame.fails
    /\ r_pc = "returned" =>
          /\ r_frame.attempts = r_frame.fails + 1
          /\ r_result \in Results
    /\ r_pc = "exited" => r_frame.attempts = r_tries + 1

\* C8 witness: with three tries, the fourth failure in a row ended the process
\* after three sleeps.
C8_Witness ==
    /\ r_pc = "exited"
    /\ r_tries = TIMES_TO_TRY
    /\ r_frame.sleeps = TIMES_TO_TRY
    /\ r_frame.attempts = TIMES_TO_TRY + 1

\* C9 as claimed: once search_query has failed three times in a row the
\* export goes no further: no page is streamed, no CSV is written, and the
\* run ends with exit status 1.
C9_ThreeFailuresExit ==
    frames["search_query"].fails >= TIMES_TO_TRY =>
        /\ pc \notin StreamingPcs \cup CsvPcs
        /\ pc = "done" => exit_status = 1

\* C9 amended: with tries = 3 the retry wrapper of search_query ends the
\* process only on the fourth consecutive ConnectionError, after three sleeps
\* of RETRY_DELAY and four attempts, and then nothing was staged or written
\* to the output file; with fewer failures no wrapper exits.
C9_FourFailuresExit ==
    LET fr == frames["search_query"]
    IN /\ fr.fails = TIMES_TO_TRY + 1 =>
            /\ outcome = "SystemExit@f_retry"
            /\ fr.attempts = TIMES_TO_TRY + 1
            /\ fr.sleeps = TIMES_TO_TRY
            /\ fr.slept = TIMES_TO_TRY * RETRY_DELAY
            /\ rows_written = 0
            /\ ~tmp_file.exists
            /\ output_file = out0
       /\ (\A w \in Wrapped : frames[w].fails <= TIMES_TO_TRY) =>
            outcome # "SystemExit@f_retry"

\* C9 witness: a finished run that the fourth failure of search_query ended.
C9_Witness ==
    /\ pc = "done"
    /\ frames["search_query"].fails = TIMES_TO_TRY + 1
    /\ exit_status = 1

\* The part of a sort key before its first dot, and the requested names that
\* no target index has among its top-level properties.
C10_Root(key) ==
    IF \E j \in 1..Len(key) : key[j] = Dot
    THEN SubSeq(key, 1, (CHOOSE j \in 1..Len(key) :
                            key[j] = Dot /\ \A m \in 1..(j - 1) : key[m] # Dot) - 1)
    ELSE key
C10_Requested ==
    {opts.fields[j] : j \in 1..Len(opts.fields)}
        \cup {C10_Root(opts.sort[j][1][1]) : j \in 1..Len(opts.sort)}
C10_Known ==
    UNION {{schemas[opts.index_prefixes[n]][j] :
               j \in 1..Len(schemas[opts.index_prefixes[n]])} :
           n \in 1..Len(opts.index_prefixes)}
C10_Validated == pc = "search" \/ outcome = "SystemExit@_validate_fields"

\* C10 as claimed: for a field list without _all and any sort list,
\* _validate_fields ends the run iff a requested field or sort-key root is in
\* no target index's top-level properties.
C10_ExitIffMissing ==
    (C10_Validated /\ ~InSeq(ALL, opts.fields)) =>
        (outcome = "SystemExit@_validate_fields"
            <=> \E f \in C10_Requested : f \notin C10_Known)

\* C10 amended: the same, for field lists and sort lists in which neither a
\* field nor a sort-key root is _all.
C10_ExitIffMissingNoWildcard ==
    (C10_Validated /\ ALL \notin C10_Requested) =>
        (outcome = "SystemExit@_validate_fields"
            <=> \E f \in C10_Requested : f \notin C10_Known)

\* C10 witness: a dotted sort key whose root only the second index has, and
\* a field both lack, which ends the run.
C10_Witness ==
    /\ outcome = "SystemExit@_validate_fields"
    /\ ALL \notin C10_Requested
    /\ Len(opts.index_prefixes) = 2
    /\ opts.sort = <<SortBy(FCD)>>
    /\ FC \in C10_Known
    /\ InSeq(FAB, opts.fields)

\* One of the two stop conditions holds: rows_written equals
\* expected_result_count, or the page at hand is empty.
C3_Met == rows_written = Min(opts.max_results, num_results) \/ res.hits = <<>>

\* C3 as claimed: no scroll-continue call is issued once rows_written equals
\* expected_result_count or an empty page was fetched, and the loop is left
\* only when one of the two holds.
C3_NoScrollAfterStop ==
    /\ pc = "next_scroll" => ~C3_Met
    /\ pc = "flush" => C3_Met

\* C3 amended: the loop test is made only after the next page was fetched.
\* At the test the loop ends iff rows_written equals expected_result_count or
\* the page is empty; every non-empty page that was entered is followed by a
\* scroll-continue call, also the page that made the two counts equal, so one
\* call is issued after that; no call follows an empty page; the loop is left
\* only through its test or by the exit of next_scroll's retry; and, the
\* cluster running out of documents, the loop always ends.
C3_LoopStopsAtItsTest ==
    /\ [](pc = "next_scroll" => res.hits # <<>>)
    /\ [](pc = "flush" => C3_Met)
    /\ [][pc = "while" => (pc' = "flush" <=> C3_Met)]_vars
    /\ [][(pc = "while" /\ ~C3_Met) => pc' = "for"]_vars
    /\ [][(pc = "for" /\ i = Len(res.hits)) => pc' = "next_scroll"]_vars
    /\ [][pc = "next_scroll" =>
            (pc' \in {"next_scroll", "while"}
             \/ (pc' = "clean_scroll_ids" /\ outcome' = "SystemExit@f_retry"))]_vars
    /\ [][(pc \in StreamingPcs /\ pc' \notin StreamingPcs) =>
            pc \in {"flush", "next_scroll"}]_vars
    /\ (pc \in StreamingPcs ~> pc \notin StreamingPcs)

\* C3 witness: a scroll-continue call in progress although rows_written
\* already equals expected_result_count.
C3_Witness ==
    /\ pc = "next_scroll"
    /\ rows_written = Min(opts.max_results, num_results)
    /\ frames["next_scroll"].attempts > 0

\* C11: when the index list lacks _all and the existence check returns
\* False, check_indexes ends the process on that attempt: f_retry does not
\* catch the SystemExit, so the attempt is not repeated and no delay is slept
\* for it, and search_query is never entered.  When the list holds _all,
\* check_indexes returns at once, without a call that could fail, and
\* index_prefixes is exactly [_all].
C11_MissingIndexExitsAtOnce ==
    /\ [](frames["check_indexes"].raised = "SystemExit" =>
            /\ ~InSeq("_all", opts.index_prefixes)
            /\ ~indices_exists(opts.index_prefixes, schemas)
            /\ outcome = "SystemExit@check_indexes"
            /\ exit_status = 1
            /\ pc \in {"clean_scroll_ids", "done"}
            /\ frames["check_indexes"].attempts = frames["check_indexes"].fails + 1
            /\ frames["check_indexes"].sleeps = frames["check_indexes"].fails
            /\ frames["check_indexes"].slept = frames["check_indexes"].fails * RETRY_DELAY
            /\ frames["search_query"] = Idle
            /\ search_args = NoArgs)
    /\ []((~InSeq("_all", opts.index_prefixes)
            /\ ~indices_exists(opts.index_prefixes, schemas)) =>
              /\ pc \in {"create_connection", "check_indexes", "clean_scroll_ids", "done"}
              /\ outcome \in {"running", "SystemExit@check_indexes", "SystemExit@f_retry"}
              /\ (pc = "done" => exit_status = 1))
    /\ [][(pc = "check_indexes" /\ InSeq("_all", opts.index_prefixes)) =>
            /\ opts'.index_prefixes = <<"_all">>
            /\ pc' = "search_query"
            /\ outcome' = "running"
            /\ frames'["check_indexes"] = Idle]_vars

\* C11 witness: after a ConnectionError that was retried, the existence check
\* answered False and the run ended there.
C11_Witness ==
    /\ pc = "done"
    /\ outcome = "SystemExit@check_indexes"
    /\ frames["check_indexes"].raised = "SystemExit"
    /\ frames["check_indexes"].fails > 0
    /\ opts.index_prefixes = <<"i1", "i3">>

\* The streaming loop was left by the break of line 206: the page at hand is
\* empty while rows_written is still below expected_result_count.
C12_BrokeEarly ==
    /\ num_results > 0
    /\ res.hits = <<>>
    /\ rows_written < Min(opts.max_results, num_results)
    /\ pc \in {"flush"} \cup CsvPcs \cup {"clean_scroll_ids", "done"}

\* After the break the run goes on, and when write_to_temp_file has returned
\* the staging file holds every consumed hit, the partial batch included,
\* and rows_written is the number of hits consumed.
C12_PartialResultsStaged ==
    /\ C12_BrokeEarly => outcome \notin {"SystemExit@f_retry", "SystemExit@check_indexes",
                                         "SystemExit@_validate_fields"}
    /\ (C12_BrokeEarly /\ pc = "write_to_csv") =>
          /\ rows_written = Len(consumed)
          /\ tmp_file.exists
          /\ tmp_file.lines = [j \in 1..Len(consumed) |->
                                  staged_line(consumed[j], opts.meta_fields)]

\* C12: an empty page before rows_written reaches expected_result_count does
\* not end the run: the loop ends, every consumed hit is in the staging file,
\* rows_written is the number of hits consumed, and those records are then
\* written to the output file, one row each after the header.
C12_EmptyPageKeptAndMaterialized ==
    /\ C12_PartialResultsStaged
    /\ (C12_BrokeEarly /\ pc \in {"clean_scroll_ids", "done"} /\ rows_written > 0) =>
          /\ outcome = "running"
          /\ output_file.exists
          /\ Len(output_file.lines) = 1 + Len(consumed)

\* C13: scroll_ids never holds an id twice and never loses an entry; the
\* cursor id of a page is in it while the page is consumed and while the next
\* one is fetched; and once the streaming loop is left it holds the cursor
\* id of the last page fetched as well.
C13_TracksEveryCursor ==
    /\ [](\A j, k \in 1..Len(scroll_ids) : scroll_ids[j] = scroll_ids[k] => j = k)
    /\ [][/\ Len(scroll_ids') >= Len(scroll_ids)
           /\ SubSeq(scroll_ids', 1, Len(scroll_ids)) = scroll_ids]_vars
    /\ [](pc \in {"for", "next_scroll"} => InSeq(res._scroll_id, scroll_ids))
    /\ []((num_results > 0 /\ (pc = "flush" \/ SearchQueryReturned)) =>
            InSeq(res._scroll_id, scroll_ids))

\* C14: clean_scroll_ids always returns: whatever the clear_scroll call
\* raises, the run goes on to its end with the outcome it had, and
\* rows_written, scroll_ids, the staging file and the output file are as
\* they were.
C14_CleanupNeverPropagates ==
    /\ [][pc = "clean_scroll_ids" =>
            /\ pc' = "done"
            /\ clear_scroll' \in {"ok"} \cup ClearScrollErrors
            /\ UNCHANGED <<outcome, rows_written, scroll_ids, tmp_file, output_file>>]_vars
    /\ [](clear_scroll # "" => pc = "done")
    /\ [](outcome \notin {e \o "@clean_scroll_ids" : e \in ClearScrollErrors})

\* C14 witness: an export that wrote its CSV and whose clear_scroll call then
\* raised ConnectionError ended with exit status 0.
C14_Witness ==
    /\ pc = "done"
    /\ clear_scroll = "ConnectionError"
    /\ exit_status = 0
    /\ rows_written > 0
    /\ output_file.exists
    /\ ~tmp_file.exists

\* C15: when an attempt of a wrapped method raises anything but
\* ConnectionError (the SystemExit of check_indexes, of _validate_fields, or
\* of the f_retry of next_scroll inside search_query), the exception leaves
\* f_retry on that attempt: the run ends, the method was invoked once more
\* than it failed with ConnectionError, and every sleep of the call followed
\* one of those ConnectionErrors.
C15_OtherErrorsPropagate ==
    \A w \in Wrapped :
        frames[w].raised \notin {"", "ConnectionError"} =>
            /\ pc \in {"clean_scroll_ids", "done"}
            /\ outcome \in {"SystemExit@check_indexes", "SystemExit@_validate_fields",
                             "SystemExit@f_retry"}
            /\ frames[w].attempts = frames[w].fails + 1
            /\ frames[w].sleeps = frames[w].fails
            /\ frames[w].slept = frames[w].fails * RETRY_DELAY

\* C15 witness: search_query was retried after a ConnectionError, streamed,
\* and was then left by the SystemExit of next_scroll's fourth failure.
C15_Witness ==
    /\ pc = "done"
    /\ outcome = "SystemExit@f_retry"
    /\ frames["next_scroll"].fails = TIMES_TO_TRY + 1
    /\ frames["search_query"].raised = "SystemExit"
    /\ frames["search_query"].fails = 1
    /\ frames["search_query"].attempts = 2
    /\ rows_written > 0

\* The last n elements of a sequence.
C16_Last(s, n) == SubSeq(s, Len(s) - n + 1, Len(s))

\* C16: a page the loop has entered is consumed whole: each step of the for
\* loop counts one hit and puts it in the batch or the staging file, the loop
\* goes on to the next hit whatever rows_written is, the scroll-continue call
\* is only made after the last hit of the page, and when write_to_temp_file
\* has returned every consumed hit is in the staging file.
C16_NoPageTruncated ==
    /\ [][pc = "for" =>
            /\ rows_written' = rows_written + 1
            /\ consumed' = Append(consumed, res.hits[i])
            /\ Len(tmp_file'.lines) + Len(hit_list')
                  = Len(tmp_file.lines) + Len(hit_list) + 1
            /\ res' = res
            /\ (i < Len(res.hits) => (pc' = "for" /\ i' = i + 1))]_vars
    /\ [](pc = "for" =>
            /\ i \in 1..Len(res.hits)
            /\ C16_Last(consumed, i - 1) = SubSeq(res.hits, 1, i - 1))
    /\ [](pc = "next_scroll" =>
            /\ rows_written = Len(consumed)
            /\ Len(consumed) >= Len(res.hits)
            /\ C16_Last(consumed, Len(res.hits)) = res.hits)
    /\ []((pc = "write_to_csv" /\ num_results > 0) =>
            tmp_file.lines = [j \in 1..Len(consumed) |->
                                staged_line(consumed[j], opts.meta_fields)])

\* C16 witness: a page of several hits was consumed whole although fewer
\* hits were missing to reach expected_result_count when it was entered.
C16_Witness ==
    /\ pc = "next_scroll"
    /\ Len(res.hits) > 1
    /\ rows_written - Len(res.hits) > 0
    /\ rows_written - Len(res.hits) < Min(opts.max_results, num_results)
    /\ rows_written > Min(opts.max_results, num_results)

\* C17: _validate_fields runs once per export and is over before the search
\* request is issued: the request is only made with fields that passed, and
\* a request that failed with ConnectionError is made again without the run
\* going through the validation a second time.
C17_ValidatedOnceBeforeSearch ==
    /\ [](pc = "search" => ~validate_fields_exits(opts, schemas))
    /\ [][pc = "search" => pc' # "search_query"]_vars

\* C18: throughout the streaming loop rows_written is the number of lines in
\* the staging file (absent when the run began) plus the size of the batch,
\* and the batch holds fewer than FLUSH_BUFFER hits; a flush inside the for
\* loop writes exactly FLUSH_BUFFER lines and empties the batch, and the
\* final flush writes the rest, fewer than FLUSH_BUFFER.
C18_BatchAccounting ==
    /\ [](pc \in StreamingPcs =>
            /\ rows_written = Len(tmp_file.lines) + Len(hit_list)
            /\ Len(hit_list) < FLUSH_BUFFER
            /\ Len(tmp_file.lines) % FLUSH_BUFFER = 0)
    /\ [][(pc = "for" /\ tmp_file' # tmp_file) =>
            /\ Len(tmp_file'.lines) = Len(tmp_file.lines) + FLUSH_BUFFER
            /\ hit_list' = <<>>]_vars
    /\ [][pc = "flush" =>
            /\ Len(tmp_file'.lines) = Len(tmp_file.lines) + Len(hit_list)
            /\ Len(hit_list) < FLUSH_BUFFER
            /\ rows_written' = Len(tmp_file'.lines)]_vars

\* C18 witness: the final flush is about to write a partial batch after a
\* full batch was written inside the loop.
C18_Witness ==
    /\ pc = "flush"
    /\ Len(tmp_file.lines) >= FLUSH_BUFFER
    /\ hit_list # <<>>

\* C19: the initial search is only issued, and search_query only (re)started,
\* before anything was counted, staged or recorded; once the streaming loop
\* is entered the run stays in it until write_to_temp_file returns or the
\* process ends, search_query is not invoked again meanwhile, a
\* ConnectionError of the scroll call is retried by next_scroll itself or
\* ends the process, and every counted hit is a distinct document served.
C19_StreamingEnteredOnce ==
    /\ [](pc \in {"search_query", "search"} =>
            /\ rows_written = 0
            /\ consumed = <<>>
            /\ hit_list = <<>>
            /\ scroll_ids = <<>>
            /\ ~tmp_file.exists)
    /\ [](/\ rows_written = Len(consumed)
          /\ rows_written <= MaxDocs - docs_left)
    /\ [][(pc \in StreamingPcs) =>
            pc' \in StreamingPcs \cup {"write_to_csv", "clean_scroll_ids"}]_vars
    /\ [][(pc \in StreamingPcs /\ pc' \in StreamingPcs) =>
            frames'["search_query"].attempts = frames["search_query"].attempts]_vars
    /\ [][(pc \in StreamingPcs /\ pc' = "clean_scroll_ids") =>
            (pc = "next_scroll" /\ outcome' = "SystemExit@f_retry")]_vars

\* C19 witness: with hits already staged, the scroll call has failed three
\* times inside next_scroll's own retry, search_query being in its first
\* attempt.
C19_Witness ==
    /\ pc = "next_scroll"
    /\ frames["next_scroll"].fails = TIMES_TO_TRY
    /\ frames["search_query"].attempts = 1
    /\ rows_written > 0
    /\ tmp_file.exists

====
